---- MODULE Spec2Model ----
(***************************************************************************)
(* Model of src/app.py: the POST /chat handler, the module-level           *)
(* conversation_history dictionary and the conversational pipeline that    *)
(* is loaded once at start.                                                *)
(*                                                                         *)
(* Conversation objects are Python objects held by reference: the          *)
(* dictionary maps a user identifier to an object, and a handler's local   *)
(* `history` names the same object.  The model keeps a heap of             *)
(* conversations (object id -> sequence of turns) so that a mutation       *)
(* through `history` is seen through the dictionary, as in the program.    *)
(*                                                                         *)
(* Handlers run on threads (the Flask server dispatches one handler per    *)
(* request); each statement that touches shared state is one step.         *)
(*                                                                         *)
(* The transformers library is outside the repository.  Its calls are      *)
(* modelled by what app.py's own comments say they do:                     *)
(* create_new_conversation() returns an empty conversation,                *)
(* add_user_message / add_ai_response append one turn, and calling the     *)
(* pipeline either returns a reply or raises.                              *)
(***************************************************************************)
EXTENDS Naturals, Sequences, FiniteSets, TLC

\* ---- bounds ----
MaxRequests == 3      \* requests started in one behaviour

\* ---- input domains ----
Threads == {"t1", "t2"}
Users == {"default_user", "alice"}
Msgs == {"hello", "bye"}
Replies == {"r1", "r2"}
Errors == {"boom"}

NoEntry == 0                      \* dict.get found no key
ObjIds == 1 .. MaxRequests        \* one fresh Conversation per request at most

\* ---- conversations ----
UserTurn(m) == [role |-> "user", content |-> m]
AssistantTurn(m) == [role |-> "assistant", content |-> m]

\* the new turn put in front of the conversation
add_user_message_front(conv, text) == <<UserTurn(text)>> \o conv

\* Conversation.add_user_message(text)
add_user_message(conv, text) == Append(conv, UserTurn(text))

\* the reply not recorded
add_ai_response_dropped(conv, text) == conv

\* Conversation.add_ai_response(text)
add_ai_response(conv, text) == Append(conv, AssistantTurn(text))

\* conversational_pipeline.create_new_conversation()
create_new_conversation == << >>

\* ---- request bodies ----
\* An element of "messages": a dict with or without "content", or a value
\* that is not a dict (a bare JSON string), on which .get raises.
DictElem(c) == [kind |-> "dict", hasContent |-> TRUE, content |-> c]
NoContentElem == [kind |-> "dict", hasContent |-> FALSE, content |-> ""]
StrElem == [kind |-> "str", hasContent |-> FALSE, content |-> ""]
Elems == {DictElem(c) : c \in Msgs \cup {""}} \cup {NoContentElem, StrElem}

\* what a client may put in front of the last element
Prefixes == {<< >>, <<DictElem("hello")>>, <<StrElem, DictElem("bye")>>}

\* data: without the "messages" key, with an empty list, or with a list
Bodies == {[hasMessages |-> FALSE, messages |-> << >>],
           [hasMessages |-> TRUE, messages |-> << >>]}
          \cup {[hasMessages |-> TRUE, messages |-> Append(p, e)] :
                   p \in Prefixes, e \in Elems}

Raised == [raised |-> TRUE, value |-> ""]
Value(v) == [raised |-> FALSE, value |-> v]

\* the first element read instead of the last
ExtractUserMessage_first(data) ==
    IF data.hasMessages /\ Len(data.messages) > 0
    THEN LET first == data.messages[1]
         IN IF first.kind = "dict"
            THEN Value(IF first.hasContent THEN first.content ELSE "")
            ELSE Raised
    ELSE Value("")

\* line 89:
\* data.get("messages", [])[-1].get("content", "") if data.get("messages") else ""
ExtractUserMessage(data) ==
    IF data.hasMessages /\ Len(data.messages) > 0
    THEN LET last == data.messages[Len(data.messages)]
         IN IF last.kind = "dict"
            THEN Value(IF last.hasContent THEN last.content ELSE "")
            ELSE Raised
    ELSE Value("")

\* every message let through
Provided_any(m) == TRUE

\* line 92: `not user_message` is false
Provided(m) == m # ""

\* ---- responses ----
Json(status, key, text) == [status |-> status, key |-> key, text |-> text]
NoResponse == Json(0, "", "")
\* an exception that leaves chat(): Flask answers, not the handler
Unhandled == Json(500, "unhandled", "AttributeError")
\* the marker left out
EchoText_bare(m) == "Echo: " \o m

\* line 129: f"Echo: {user_message} (Conversational AI not loaded)"
EchoText(m) == "Echo: " \o m \o " (Conversational AI not loaded)"

\* ---- the handler run from start to end with nothing in between ----
Absent == [present |-> FALSE, turns |-> << >>]
Present(conv) == [present |-> TRUE, turns |-> conv]

\* what one call of the pipeline does: return a reply or raise
GatewayOutcomes ==
    {[raises |-> FALSE, text |-> r] : r \in Replies}
    \cup {[raises |-> TRUE, text |-> e] : e \in Errors}

\* lines 78-137 for one request: the answer and the dictionary afterwards.
\* `history` is the stored object when the key exists, so what
\* add_user_message appended stays in the dictionary when the pipeline raises.
chat(store, pipeline, u, data, gw) ==
    LET m == ExtractUserMessage(data)
    IN IF m.raised
       THEN [response |-> Unhandled, store |-> store]
       ELSE IF ~Provided(m.value)
       THEN [response |-> Json(400, "error", "Please provide a message"),
             store |-> store]
       ELSE IF ~pipeline
       THEN [response |-> Json(200, "response", EchoText(m.value)),
             store |-> store]
       ELSE LET got == IF store[u].present THEN store[u].turns
                       ELSE create_new_conversation
                asked == add_user_message(got, m.value)
            IN IF gw.raises
               THEN [response |-> Json(500, "error", gw.text),
                     store |-> IF store[u].present
                               THEN [store EXCEPT ![u] = Present(asked)]
                               ELSE store]
               ELSE [response |-> Json(200, "response", gw.text),
                     store |-> [store EXCEPT ![u] =
                                  Present(add_ai_response(asked, gw.text))]]

\* dictionaries the two requests start from: per user no entry, one
\* exchange, or one exchange and the user turn a failed request left
PairStores ==
    [Users -> {Absent,
               Present(<<UserTurn("hello"), AssistantTurn("r1")>>),
               Present(<<UserTurn("hello"), AssistantTurn("r1"), UserTurn("bye")>>)}]

NoResult == [response |-> NoResponse, store |-> [u \in Users |-> Absent]]

PairOff ==
    [stage |-> "off", pipeline |-> FALSE, store |-> [u \in Users |-> Absent],
     u |-> "default_user", d1 |-> [hasMessages |-> FALSE, messages |-> << >>],
     d2 |-> [hasMessages |-> FALSE, messages |-> << >>],
     gw |-> [raises |-> TRUE, text |-> "boom"], r1 |-> NoResult, r2 |-> NoResult]

VARIABLES
    booted,                  \* module body has run (line 41 done)
    conversational_pipeline, \* TRUE: pipeline object, FALSE: None
    conversation_history,    \* user id -> object id or NoEntry
    heap,                    \* object id -> turns of that Conversation
    pc,                      \* per thread: where its handler is
    user_id, user_message,   \* handler locals
    history,                 \* handler local: object id
    ai_response,             \* handler local
    response,                \* what the request answered
    nreq,                    \* requests started so far
    pre,                     \* stored turns of user_id when the request began
    hadEntry,                \* whether user_id had an entry when it began
    overlap,                 \* another request of user_id was in flight meanwhile
    passed,                  \* turns of the conversation when the gateway was invoked
    sawBlocked,              \* it began while another user's request was in the gateway
    gatewayCalls,            \* number of gateway invocations so far
    completed,               \* user id -> requests answered with a reply so far
    pair                     \* two requests handled from one and the same state

vars == <<booted, conversational_pipeline, conversation_history, heap, pc,
          user_id, user_message, history, ai_response, response, nreq,
          pre, hadEntry, overlap, passed, sawBlocked, gatewayCalls, completed,
          pair>>

locals == <<user_id, user_message, history, ai_response>>
ghosts == <<pre, hadEntry, overlap, passed, sawBlocked>>
shared == <<conversation_history, heap>>
threadVars == <<booted, conversational_pipeline, conversation_history, heap, pc,
                user_id, user_message, history, ai_response, response, nreq,
                pre, hadEntry, overlap, passed, sawBlocked, gatewayCalls,
                completed>>

\* the turns the store holds for u (empty when u has no entry)
Stored(u) ==
    IF conversation_history[u] = NoEntry THEN << >>
    ELSE heap[conversation_history[u]]

InFlight(t) == pc[t] \notin {"idle", "done"}

InitThreads ==
    /\ booted = FALSE
    /\ conversational_pipeline = FALSE
    /\ conversation_history = [u \in Users |-> NoEntry]
    /\ heap = [o \in ObjIds |-> << >>]
    /\ pc = [t \in Threads |-> "idle"]
    /\ user_id = [t \in Threads |-> "default_user"]
    /\ user_message = [t \in Threads |-> ""]
    /\ history = [t \in Threads |-> NoEntry]
    /\ ai_response = [t \in Threads |-> ""]
    /\ response = [t \in Threads |-> NoResponse]
    /\ nreq = 0
    /\ pre = [t \in Threads |-> << >>]
    /\ hadEntry = [t \in Threads |-> FALSE]
    /\ overlap = [t \in Threads |-> FALSE]
    /\ passed = [t \in Threads |-> << >>]
    /\ sawBlocked = [t \in Threads |-> FALSE]
    /\ gatewayCalls = 0
    /\ completed = [u \in Users |-> 0]

Init ==
    /\ InitThreads
    /\ pair = PairOff

\* lines 19-41: the single load attempt at start
load_pipeline(ok) ==
    /\ ~booted
    /\ booted' = TRUE
    /\ conversational_pipeline' = ok
    /\ UNCHANGED <<shared, pc, locals, response, nreq, ghosts, gatewayCalls, completed, pair>>

\* object ids some live reference names: the dictionary's values and the
\* `history` of handlers in flight
Referenced(store, hist, inflight) ==
    {store[u] : u \in Users} \cup {hist[t] : t \in inflight}

\* the heap after the objects nothing refers to any more are reclaimed
Collect(h, store, hist, inflight) ==
    [o \in ObjIds |-> IF o \in Referenced(store, hist, inflight) THEN h[o] ELSE << >>]

\* the id of the object create_new_conversation() returns
FreshId ==
    LET used == Referenced(conversation_history, history,
                           {t \in Threads : InFlight(t)})
    IN CHOOSE o \in ObjIds : o \notin used /\ \A p \in ObjIds : p < o => p \in used

\* the handler of thread t has returned: its locals are gone
Finish(t, resp) ==
    /\ pc' = [pc EXCEPT ![t] = "done"]
    /\ response' = [response EXCEPT ![t] = resp]
    /\ history' = [history EXCEPT ![t] = NoEntry]
    /\ ai_response' = [ai_response EXCEPT ![t] = ""]
    /\ pre' = [pre EXCEPT ![t] = << >>]
    /\ hadEntry' = [hadEntry EXCEPT ![t] = FALSE]
    /\ overlap' = [overlap EXCEPT ![t] = FALSE]
    /\ passed' = [passed EXCEPT ![t] = << >>]

\* lines 78-96 (and 128-130): read the body and the header, extract and check
\* the message, then test the pipeline; none of it touches the dictionary
chat_begin(t, u, data) ==
    /\ booted
    /\ pc[t] \in {"idle", "done"}
    /\ nreq < MaxRequests
    /\ nreq' = nreq + 1
    /\ user_id' = [user_id EXCEPT ![t] = u]
    /\ LET m == ExtractUserMessage(data)
           others == {o \in Threads \ {t} : InFlight(o) /\ user_id[o] = u}
       IN /\ user_message' = [user_message EXCEPT ![t] = m.value]
          /\ sawBlocked' = [sawBlocked EXCEPT ![t] =
                /\ ~m.raised /\ Provided(m.value) /\ conversational_pipeline
                /\ \E o \in Threads \ {t} : pc[o] = "gateway" /\ user_id[o] # u]
          /\ IF m.raised
             THEN Finish(t, Unhandled)
             ELSE IF ~Provided(m.value)
             THEN Finish(t, Json(400, "error", "Please provide a message"))
             ELSE IF ~conversational_pipeline
             THEN Finish(t, Json(200, "response", EchoText(m.value)))
             ELSE /\ pc' = [pc EXCEPT ![t] = "get"]
                  /\ response' = [response EXCEPT ![t] = NoResponse]
                  /\ history' = [history EXCEPT ![t] = NoEntry]
                  /\ ai_response' = [ai_response EXCEPT ![t] = ""]
                  /\ pre' = [pre EXCEPT ![t] = Stored(u)]
                  /\ hadEntry' = [hadEntry EXCEPT ![t] = conversation_history[u] # NoEntry]
                  /\ passed' = [passed EXCEPT ![t] = << >>]
                  /\ overlap' = [o \in Threads |->
                                   IF o = t THEN others # {}
                                   ELSE IF o \in others THEN TRUE
                                   ELSE overlap[o]]
    /\ UNCHANGED <<booted, conversational_pipeline, shared, gatewayCalls, completed, pair>>

\* the new conversation put into the dictionary by the lookup itself
chat_get_history_setdefault(t) ==
    /\ pc[t] = "get"
    /\ IF conversation_history[user_id[t]] # NoEntry
       THEN /\ history' = [history EXCEPT ![t] = conversation_history[user_id[t]]]
            /\ UNCHANGED <<heap, conversation_history>>
       ELSE /\ history' = [history EXCEPT ![t] = FreshId]
            /\ heap' = [heap EXCEPT ![FreshId] = create_new_conversation]
            /\ conversation_history' =
                  [conversation_history EXCEPT ![user_id[t]] = FreshId]
    /\ pc' = [pc EXCEPT ![t] = "add_user"]
    /\ UNCHANGED <<booted, conversational_pipeline,
                   user_id, user_message, ai_response, response, nreq,
                   ghosts, gatewayCalls, completed, pair>>

\* the lookup made to wait while any other request is in the gateway
chat_get_history_locked(t) ==
    /\ pc[t] = "get"
    /\ \A o \in Threads \ {t} : pc[o] # "gateway"
    /\ IF conversation_history[user_id[t]] # NoEntry
       THEN /\ history' = [history EXCEPT ![t] = conversation_history[user_id[t]]]
            /\ UNCHANGED heap
       ELSE /\ history' = [history EXCEPT ![t] = FreshId]
            /\ heap' = [heap EXCEPT ![FreshId] = create_new_conversation]
    /\ pc' = [pc EXCEPT ![t] = "add_user"]
    /\ UNCHANGED <<booted, conversational_pipeline, conversation_history,
                   user_id, user_message, ai_response, response, nreq,
                   ghosts, gatewayCalls, completed, pair>>

\* lines 99-101: conversation_history.get(user_id, <new conversation>)
\* (the new conversation is dropped at once when the key exists)
chat_get_history(t) ==
    /\ pc[t] = "get"
    /\ IF conversation_history[user_id[t]] # NoEntry
       THEN /\ history' = [history EXCEPT ![t] = conversation_history[user_id[t]]]
            /\ UNCHANGED heap
       ELSE /\ history' = [history EXCEPT ![t] = FreshId]
            /\ heap' = [heap EXCEPT ![FreshId] = create_new_conversation]
    /\ pc' = [pc EXCEPT ![t] = "add_user"]
    /\ UNCHANGED <<booted, conversational_pipeline, conversation_history,
                   user_id, user_message, ai_response, response, nreq,
                   ghosts, gatewayCalls, completed, pair>>

\* line 105: history.add_user_message(user_message), in place
chat_add_user_message(t) ==
    /\ pc[t] = "add_user"
    /\ heap' = [heap EXCEPT ![history[t]] = add_user_message(@, user_message[t])]
    /\ pc' = [pc EXCEPT ![t] = "generate"]
    /\ UNCHANGED <<booted, conversational_pipeline, conversation_history,
                   locals, response, nreq, ghosts, gatewayCalls, completed, pair>>

\* line 109, the call: the pipeline is handed the conversation object
chat_generate(t) ==
    /\ pc[t] = "generate"
    /\ passed' = [passed EXCEPT ![t] = heap[history[t]]]
    /\ gatewayCalls' = gatewayCalls + 1
    /\ pc' = [pc EXCEPT ![t] = "gateway"]
    /\ UNCHANGED <<booted, conversational_pipeline, shared, locals, response,
                   nreq, pre, hadEntry, overlap, sawBlocked, completed, pair>>

\* lines 109-119: the pipeline returns, its last generated response is taken
\* and history.add_ai_response(ai_response) appends it, in place
gateway_return(t, reply) ==
    /\ pc[t] = "gateway"
    /\ ai_response' = [ai_response EXCEPT ![t] = reply]
    /\ heap' = [heap EXCEPT ![history[t]] = add_ai_response(@, reply)]
    /\ pc' = [pc EXCEPT ![t] = "save"]
    /\ UNCHANGED <<booted, conversational_pipeline, conversation_history,
                   user_id, user_message, history, response, nreq, ghosts,
                   gatewayCalls, completed, pair>>

\* a failed generation taken for a pipeline that is gone
gateway_raise_degrades(t, e) ==
    /\ pc[t] = "gateway"
    /\ Finish(t, Json(500, "error", e))
    /\ heap' = Collect(heap, conversation_history, history,
                       {o \in Threads \ {t} : InFlight(o)})
    /\ conversational_pipeline' = FALSE
    /\ sawBlocked' = [sawBlocked EXCEPT ![t] = FALSE]
    /\ UNCHANGED <<booted, conversation_history,
                   user_id, user_message, nreq, gatewayCalls, completed, pair>>

\* line 109 raising, then lines 132-137
gateway_raise(t, e) ==
    /\ pc[t] = "gateway"
    /\ Finish(t, Json(500, "error", e))
    /\ heap' = Collect(heap, conversation_history, history,
                       {o \in Threads \ {t} : InFlight(o)})
    /\ sawBlocked' = [sawBlocked EXCEPT ![t] = FALSE]
    /\ UNCHANGED <<booted, conversational_pipeline, conversation_history,
                   user_id, user_message, nreq, gatewayCalls, completed, pair>>

\* the conversation stored under the default key whatever the header says
chat_save_default(t) ==
    /\ pc[t] = "save"
    /\ conversation_history' = [conversation_history EXCEPT !["default_user"] = history[t]]
    /\ Finish(t, Json(200, "response", ai_response[t]))
    /\ heap' = Collect(heap, conversation_history', history,
                       {o \in Threads \ {t} : InFlight(o)})
    /\ completed' = [completed EXCEPT ![user_id[t]] = @ + 1]
    /\ UNCHANGED <<booted, conversational_pipeline, user_id, user_message,
                   nreq, sawBlocked, gatewayCalls, pair>>

\* lines 120-123: conversation_history[user_id] = history, then
\* return jsonify({"response": ai_response})
chat_save(t) ==
    /\ pc[t] = "save"
    /\ conversation_history' = [conversation_history EXCEPT ![user_id[t]] = history[t]]
    /\ Finish(t, Json(200, "response", ai_response[t]))
    /\ heap' = Collect(heap, conversation_history', history,
                       {o \in Threads \ {t} : InFlight(o)})
    /\ completed' = [completed EXCEPT ![user_id[t]] = @ + 1]
    /\ UNCHANGED <<booted, conversational_pipeline, user_id, user_message,
                   nreq, sawBlocked, gatewayCalls, pair>>

Next ==
    \/ \E ok \in BOOLEAN : load_pipeline(ok)
    \/ \E t \in Threads, u \in Users, data \in Bodies : chat_begin(t, u, data)
    \/ \E t \in Threads : chat_get_history(t)
    \/ \E t \in Threads : chat_add_user_message(t)
    \/ \E t \in Threads : chat_generate(t)
    \/ \E t \in Threads, reply \in Replies : gateway_return(t, reply)
    \/ \E t \in Threads, e \in Errors : gateway_raise(t, e)
    \/ \E t \in Threads : chat_save(t)

Spec == Init /\ [][Next]_vars

\* ---- two requests of one user from the same state ----
InitPair ==
    /\ InitThreads
    /\ pair \in {[stage |-> "ready", pipeline |-> p, store |-> st, u |-> u,
                   d1 |-> d1, d2 |-> d2, gw |-> gw,
                   r1 |-> NoResult, r2 |-> NoResult] :
                     p \in BOOLEAN, st \in PairStores, u \in Users,
                     d1 \in Bodies, d2 \in Bodies, gw \in GatewayOutcomes}

\* the request with body d1 is handled
pair_first ==
    /\ pair.stage = "ready"
    /\ pair' = [pair EXCEPT !.stage = "first",
                            !.r1 = chat(pair.store, pair.pipeline, pair.u,
                                        pair.d1, pair.gw)]
    /\ UNCHANGED threadVars

\* the request with body d2 is handled, from the state the first started from
pair_second ==
    /\ pair.stage = "first"
    /\ pair' = [pair EXCEPT !.stage = "both",
                            !.r2 = chat(pair.store, pair.pipeline, pair.u,
                                        pair.d2, pair.gw)]
    /\ UNCHANGED threadVars

NextPair == pair_first \/ pair_second

SpecPair == InitPair /\ [][NextPair]_vars

\* ---- properties ----

IsPrefix(a, b) == Len(a) <= Len(b) /\ SubSeq(b, 1, Len(a)) = a

HasEntry(u) == conversation_history[u] # NoEntry

\* the request of thread t was answered with a generated reply
Replied(t) ==
    /\ pc[t] = "done"
    /\ conversational_pipeline
    /\ response[t].status = 200
    /\ response[t].key = "response"

\* C1: no lost update. Once no request of user u is in flight, the
\* conversation stored for u holds the 2 turns of every request of u that
\* was answered with a reply, whatever the interleaving was: two such
\* requests leave 4 turns, never 2.
C1_NoLostUpdate ==
    \A u \in Users :
        (\A t \in Threads : ~(InFlight(t) /\ user_id[t] = u))
            => Len(Stored(u)) >= 2 * completed[u]

\* C2: when the gateway raises during a request of user u that no other
\* request of u overlaps, the conversation stored for u after the request
\* is the one stored when it began, and u has an entry only if it had one.
C2_FailureLeavesStoreAsBefore ==
    [][\A t \in Threads :
          (pc[t] = "gateway" /\ pc'[t] = "done" /\ ~overlap[t])
              => /\ Stored(user_id[t])' = pre[t]
                 /\ HasEntry(user_id[t])' = hadEntry[t]]_vars

\* turns alternate user, assistant, user, ... starting with a user turn
Alternates(conv) ==
    \A i \in 1 .. Len(conv) :
        conv[i].role = (IF i % 2 = 1 THEN "user" ELSE "assistant")

\* C3: in every reachable state every stored conversation alternates
\* user, assistant, ... starting with a user turn.
C3_StoredTurnsAlternate ==
    \A u \in Users : Alternates(Stored(u))

\* C4: a call answered with a reply, not overlapped by another request of
\* the same user, leaves the stored conversation exactly 2 turns longer:
\* the turns stored when it began, then its user message, then the reply.
C4_SuccessAppendsTwoTurns ==
    [][\A t \in Threads :
          (pc[t] = "save" /\ pc'[t] = "done" /\ ~overlap[t])
              => Stored(user_id[t])' =
                     pre[t] \o <<UserTurn(user_message[t]),
                                 AssistantTurn(response'[t].text)>>]_vars

C4_Witness ==
    \E t \in Threads :
        /\ Replied(t)
        /\ Len(Stored(user_id[t])) = 4
        /\ completed[user_id[t]] = 2
        /\ Stored(user_id[t])[4] = AssistantTurn(response[t].text)

\* C5: a stored conversation only grows. In every step every user that has
\* an entry keeps one, and the conversation stored before the step is a
\* prefix of the one stored after it.
C5_StoredOnlyGrows ==
    [][\A u \in Users :
          /\ HasEntry(u) => HasEntry(u)'
          /\ IsPrefix(Stored(u), Stored(u)')]_vars

\* a body whose messages list is absent or empty, or whose last element
\* has an absent or empty content
NoMessage(data) ==
    \/ ~data.hasMessages
    \/ data.messages = << >>
    \/ /\ data.messages[Len(data.messages)].kind = "dict"
       /\ \/ ~data.messages[Len(data.messages)].hasContent
          \/ data.messages[Len(data.messages)].content = ""

NoMessageBodies == {data \in Bodies : NoMessage(data)}

\* C6: a request whose message is absent or empty is answered 400 with
\* error "Please provide a message", invokes no gateway and leaves the
\* dictionary and every conversation as they were.
C6_InvalidRequestRejected ==
    [][\A t \in Threads :
          (pc[t] \in {"idle", "done"} /\ nreq' # nreq)
              => \/ /\ pc'[t] = "done"
                    /\ response'[t] = [status |-> 400, key |-> "error",
                                       text |-> "Please provide a message"]
                    /\ gatewayCalls' = gatewayCalls
                    /\ conversation_history' = conversation_history
                    /\ heap' = heap
                 \/ \A data \in NoMessageBodies :
                       ~chat_begin(t, user_id'[t], data)]_vars

C6_Witness ==
    \E t \in Threads :
        /\ pc[t] = "done"
        /\ response[t].status = 400
        /\ Len(Stored(user_id[t])) >= 2

\* C7: when the pipeline failed to load, every request with a non-empty
\* message m is answered 200 with "Echo: m (Conversational AI not loaded)",
\* and the store stays as it was at start: no entry, no conversation, no
\* gateway invocation.
C7_DegradedModeEchoes ==
    (booted /\ ~conversational_pipeline)
        => /\ \A u \in Users : ~HasEntry(u)
           /\ \A o \in ObjIds : heap[o] = << >>
           /\ gatewayCalls = 0
           /\ \A t \in Threads :
                 (pc[t] # "idle" /\ user_message[t] # "")
                     => /\ pc[t] = "done"
                        /\ response[t].status = 200
                        /\ response[t].key = "response"
                        /\ response[t].text =
                              "Echo: " \o user_message[t]
                                       \o " (Conversational AI not loaded)"

C7_Witness ==
    /\ booted /\ ~conversational_pipeline
    /\ \E t \in Threads :
          /\ pc[t] = "done"
          /\ user_message[t] = "hello"
          /\ response[t].text = "Echo: hello (Conversational AI not loaded)"

\* C8: a first call for a user with no stored conversation, answered with a
\* reply and not overlapped by another request of that user, leaves an entry
\* of exactly two turns: the user turn with the message, then the assistant
\* turn with the reply.
C8_FirstCallStoresTwoTurns ==
    [][\A t \in Threads :
          (pc[t] = "save" /\ pc'[t] = "done" /\ ~hadEntry[t] /\ ~overlap[t])
              => /\ HasEntry(user_id[t])'
                 /\ Len(Stored(user_id[t])') = 2
                 /\ Stored(user_id[t])'[1] =
                        [role |-> "user", content |-> user_message[t]]
                 /\ Stored(user_id[t])'[2] =
                        [role |-> "assistant", content |-> ai_response[t]]]_vars

C8_Witness ==
    \E t \in Threads :
        /\ Replied(t)
        /\ completed[user_id[t]] = 1
        /\ Stored(user_id[t]) = <<UserTurn(user_message[t]),
                                  AssistantTurn(response[t].text)>>

\* C9: every failure while handling a request is caught in the handler and
\* answered as a JSON error: every answered request carries a JSON body
\* built by the handler, and a gateway exception gives status 500.
C9_AllFailuresCaught ==
    \A t \in Threads :
        pc[t] = "done"
            => /\ response[t].key \in {"response", "error"}
               /\ response[t].status \in {200, 400, 500}

\* two bodies whose messages lists end with the same element
SameLastElement(d1, d2) ==
    /\ d1.hasMessages /\ d2.hasMessages
    /\ Len(d1.messages) > 0 /\ Len(d2.messages) > 0
    /\ d1.messages[Len(d1.messages)] = d2.messages[Len(d2.messages)]

\* C10: only the last element of the submitted list is used. Two requests
\* of the same user, handled from the same state with the same gateway
\* behaviour, whose lists end with the same element whatever comes before
\* it, get the same answer and leave the same dictionary.
C10_OnlyLastElementUsed ==
    (pair.stage = "both" /\ SameLastElement(pair.d1, pair.d2))
        => /\ pair.r1.response = pair.r2.response
           /\ pair.r1.store = pair.r2.store

C10_Witness ==
    /\ pair.stage = "both"
    /\ SameLastElement(pair.d1, pair.d2)
    /\ Len(pair.d1.messages) = 1
    /\ Len(pair.d2.messages) = 2
    /\ pair.d2.messages[1] = DictElem("hello")
    /\ pair.d2.messages[2] = DictElem("bye")
    /\ pair.r2.response.status = 200
    /\ pair.r2.store[pair.u].turns =
          pair.store[pair.u].turns \o <<UserTurn("bye"), AssistantTurn("r2")>>

\* C11: every request gets exactly one answer, and the answer is 200 with a
\* reply, 200 with the echo, 400 for a missing message or 500 for a failed
\* generation; no request is left without one of these.
C11_AnswerIsOneOfFour ==
    \A t \in Threads :
        pc[t] = "done"
            => \/ response[t].status = 200 /\ response[t].key = "response"
                  /\ response[t].text \in Replies
               \/ response[t].status = 200 /\ response[t].key = "response"
                  /\ \E m \in Msgs : response[t].text =
                        "Echo: " \o m \o " (Conversational AI not loaded)"
               \/ response[t].status = 400 /\ response[t].key = "error"
                  /\ response[t].text = "Please provide a message"
               \/ response[t].status = 500 /\ response[t].key = "error"
                  /\ response[t].text \in Errors

\* the steps of the handler running on thread t
ThreadStep(t) ==
    \/ chat_get_history(t)
    \/ chat_add_user_message(t)
    \/ chat_generate(t)
    \/ \E reply \in Replies : gateway_return(t, reply)
    \/ \E e \in Errors : gateway_raise(t, e)
    \/ chat_save(t)

\* every thread is scheduled again and every gateway call ends
SpecFair == Spec /\ \A t \in Threads : WF_vars(ThreadStep(t))

\* a request in flight is answered in the end
NoRequestHangs ==
    \A t \in Threads : InFlight(t) ~> (pc[t] = "done")

\* the answer is the degraded-mode echo of message m
IsEcho(resp, m) ==
    /\ resp.status = 200
    /\ resp.key = "response"
    /\ resp.text = "Echo: " \o m \o " (Conversational AI not loaded)"

\* C12: the pipeline is loaded or not once and for all. After the load
\* attempt no step changes conversational_pipeline, and a request with a
\* non-empty message is answered with the echo exactly when the load failed.
C12_ModeFixedAtStart ==
    [][/\ booted => (booted' /\ conversational_pipeline' = conversational_pipeline)
       /\ \A t \in Threads :
             (pc'[t] = "done" /\ user_message'[t] # "")
                 => (IsEcho(response'[t], user_message'[t])
                       <=> ~conversational_pipeline')]_vars

C12_Witness ==
    /\ conversational_pipeline
    /\ \E t1 \in Threads, t2 \in Threads :
          /\ pc[t1] = "done"
          /\ response[t1].status = 500
          /\ response[t1].key = "error"
          /\ user_id[t2] = user_id[t1]
          /\ pc[t2] = "save"
          /\ ~overlap[t2]
          /\ Len(pre[t2]) = 3

\* C13: when a request invokes the gateway it passes the full history
\* stored for its user followed by its own user message as the last turn,
\* and it invokes the gateway once, also with another request of the same
\* user in flight.
C13_GatewayGetsHistoryThenOwnMessage ==
    [][\A t \in Threads :
          /\ (pc[t] = "generate" /\ pc'[t] = "gateway")
                => /\ passed'[t] # << >>
                   /\ passed'[t][Len(passed'[t])] = UserTurn(user_message[t])
                   /\ IF history[t] = conversation_history[user_id[t]]
                      THEN passed'[t] = Stored(user_id[t])
                      ELSE passed'[t] = Append(Stored(user_id[t]),
                                               UserTurn(user_message[t]))
          /\ pc'[t] = "generate" => pc[t] \in {"add_user", "generate"}]_vars

\* C14: no lock spans the gateway call. While a request of user u is inside
\* the gateway, a request of another user v can begin, and every step of a
\* request of v in flight can be taken: none waits for the gateway to end.
C14_NoStoreWideLock ==
    \A t1 \in Threads : \A t2 \in Threads \ {t1} :
        pc[t1] = "gateway"
            => /\ (InFlight(t2) /\ user_id[t2] # user_id[t1])
                     => ENABLED ThreadStep(t2)
               /\ (~InFlight(t2) /\ nreq < MaxRequests)
                     => \A v \in Users \ {user_id[t1]} :
                           ENABLED chat_begin(t2, v,
                               [hasMessages |-> TRUE,
                                messages |-> <<DictElem("hello")>>])

C14_Witness ==
    \E t1 \in Threads, t2 \in Threads :
        /\ nreq = 2
        /\ pc[t1] = "gateway"
        /\ user_id[t2] # user_id[t1]
        /\ sawBlocked[t2]
        /\ Replied(t2)
        /\ Len(Stored(user_id[t2])) = 2

\* C15: user isolation. Whenever the entry or the stored conversation of a
\* user v changes, the step is a step of a request that carries v: no
\* request creates, changes or removes what is stored for another user.
C15_UserIsolation ==
    [][\A v \in Users :
          (Stored(v)' # Stored(v) \/ HasEntry(v)' # HasEntry(v))
              => \E t \in Threads :
                    /\ pc'[t] # pc[t]
                    /\ user_id[t] = v
                    /\ user_id'[t] = v]_vars

C15_Witness ==
    /\ Len(Stored("alice")) = 2
    /\ Len(Stored("default_user")) = 4
    /\ conversation_history["alice"] # conversation_history["default_user"]
    /\ \E t \in Threads : Replied(t) /\ user_id[t] = "alice"

\* C16: when a request is answered with a reply, the reply returned is the
\* content of the assistant turn it appended, and as it stores the
\* conversation that turn is the last turn stored for its user.
C16_ReplyIsLastStoredTurn ==
    [][\A t \in Threads :
          (pc[t] = "save" /\ pc'[t] = "done")
              => /\ response'[t].text = ai_response[t]
                 /\ Stored(user_id[t])' # << >>
                 /\ Stored(user_id[t])'[Len(Stored(user_id[t])')] =
                        AssistantTurn(response'[t].text)]_vars

\* C17: a user has an entry only if a request of that user was answered
\* with a reply: a first request that fails in the gateway, is invalid or is
\* echoed leaves no entry.
C17_EntryOnlyAfterReply ==
    \A u \in Users : HasEntry(u) => completed[u] >= 1

C17_Witness ==
    \E t \in Threads :
        /\ pc[t] = "done"
        /\ response[t].status = 500
        /\ response[t].key = "error"
        /\ gatewayCalls >= 1
        /\ completed[user_id[t]] = 0
        /\ ~HasEntry(user_id[t])
====
